---- MODULE Spec2Model ----
(***************************************************************************)
(* Completion-detection subsystem of the Zellij MCP server                 *)
(* (DetectionTools: watchPipe, watchFile, pipeWithTimeout,                 *)
(* pollProcess, cleanupDetection) and the wrapper script written by        *)
(* createLLMWrapper.                                                       *)
(*                                                                         *)
(* Strings are sequences of one-character strings, so that trim() and      *)
(* String.prototype.includes() are computed rather than assumed.           *)
(* Time is counted in milliseconds.                                        *)
(***************************************************************************)
EXTENDS Integers, Sequences, FiniteSets, TLC

VARIABLES
    now,         \* wall clock, ms
    files,       \* path -> Absent | Unreadable | content (sequence of chars)
    mtime,       \* path -> modification time of the file, as a count of
                 \*         the writes made to it
    prevMtime,   \* path -> mtime last seen by the path's StatWatcher
    watchers,    \* DetectionTools.watchers: the set of keys of the Map
    listeners,   \* fs.watchFile 'change' listeners, in registration order
    req,         \* watch -> validated request of the call (NoReq before)
    outcome,     \* watch -> state of the promise returned by the call
    delivered,   \* watch -> number of settlements the caller has observed
    timer,       \* watch -> deadline of the pending setTimeout, or NoTimer
    buffer,      \* watch -> watchPipe's `buffer`
    found,       \* watch -> watchPipe's `found`
    stream,      \* watch -> state of the ReadStream opened by watchPipe
    firstEvent,  \* watch -> outcome of the first terminal branch that ran
    lateRan,     \* watch -> a callback body ran after the settlement
    swept,       \* watches whose registry entry a sweep removed in flight
    processes,   \* DetectionTools.processes: the set of keys of the Map
    calls,       \* pipeWithTimeout call -> its arguments, its promise, its
                 \*         timer, its `completed` flag and its child process
    run,         \* a run of a generated wrapper script: its position, its
                 \*         files and its processes
    procs,       \* the pids of the processes that run on the machine
    query,       \* the pollProcess call: its arguments, its position and
                 \*         its result
    tmp,         \* the artifacts in /tmp: naming convention and age
    commandCounts, \* Validator.commandCounts: identifier -> count and
                 \*         resetTime, NoEntry when the Map has no such key
    response,    \* what the last tools/call request was answered with
    span,        \* a 60-second span picked for observation, and the
                 \*         number of calls of its tool accepted within it
    cache,       \* Cache.cache: key -> value and expiry, NoCacheEntry when
                 \*         the Map has no such key
    zellij,      \* what the listings are about: for the sessions and for
                 \*         the layouts, the number of changes made so far
    ops,         \* the listing and the change in progress of each kind,
                 \*         and the last change that has returned
    listed       \* the answer of the last listing of each kind, and the
                 \*         last change that had returned when it was called

vars == <<now, files, mtime, prevMtime, watchers, listeners, req, outcome,
          delivered, timer, buffer, found, stream, firstEvent, lateRan,
          swept, processes, calls, run, procs, query, tmp, commandCounts,
          response, span, cache, zellij, ops, listed>>

\* the cache of the listings and what it is observed with
cacheVars == <<cache, zellij, ops, listed>>

\* the state of the request handler of the server and of its tools
serverVars == <<commandCounts, response, span, cacheVars>>

----------------------------------------------------------------------------
(* Bounds of the model *)

MaxWatches == 1
MaxTicks == 1
MaxWrites == 1
MaxBufferLen == 2
MaxPipes == 2
MaxArtifacts == 2
MaxWindows == 1
MaxQuietRequests == 2
MaxChanges == 2

(* Program constants *)

MinWatchTimeoutMs == 100
MaxWatchTimeoutMs == 300000
MaxPatternLen == 256
MinPipeTimeoutMs == 1000
MaxPipeTimeoutMs == 600000
MaxCommandLen == 1000
MaxWrapperNameLen == 32
MaxPid == 4194304
MinIntervalMs == 100
MaxIntervalMs == 10000
MaxMarkerLen == 64
\* the exit status of timeout(1) when the time limit is reached, and of a
\* process ended by SIGPIPE
TimeoutExit == 124
SigpipeExit == 141

\* Validator.checkRateLimit(`tool_${name}`, 50, 60000)
ToolMaxRequests == 50
ToolWindowMs == 60000

\* cache.set(cacheKey, output, 5000) and cache.set(cacheKey, output, 30000)
SessionsTtlMs == 5000
LayoutsTtlMs == 30000

\* find -mtime +1: the age in whole days is more than 1
RetentionDays == 1
HoursPerDay == 24

\* the calls made so far and still to be made
Watches == DOMAIN outcome
Pipes == DOMAIN calls

----------------------------------------------------------------------------
(* Strings *)

RECURSIVE TrimLeft(_)
TrimLeft(s) ==
    IF s # << >> /\ Head(s) = " " THEN TrimLeft(Tail(s)) ELSE s

RECURSIVE TrimRight(_)
TrimRight(s) ==
    IF s # << >> /\ s[Len(s)] = " "
    THEN TrimRight(SubSeq(s, 1, Len(s) - 1))
    ELSE s

\* String.prototype.trim
Trim(s) == TrimRight(TrimLeft(s))

\* String.prototype.includes
Includes(s, p) ==
    \E i \in 0..(Len(s) - Len(p)) : SubSeq(s, i + 1, i + Len(p)) = p

SafeChars == {"/", ".", "-", "_", "a", "b", "c", "f", "p"}

\* the path test shared by watchPipe, watchFile and pipeWithTimeout:
\* !path || path.includes('..') || !path.match(/^[/\w\-\.]+$/)
ValidPath(path) ==
    /\ path # << >>
    /\ ~Includes(path, <<".", ".">>)
    /\ \A i \in 1..Len(path) : path[i] \in SafeChars

Digits == <<"0", "1", "2", "3", "4", "5", "6", "7", "8", "9">>

IsDigit(c) == \E i \in 1..Len(Digits) : Digits[i] = c
DigitVal(c) == (CHOOSE i \in 1..Len(Digits) : Digits[i] = c) - 1

\* the longest prefix of s made of decimal digits
RECURSIVE DigitsPrefix(_)
DigitsPrefix(s) ==
    IF s # << >> /\ IsDigit(Head(s))
    THEN <<Head(s)>> \o DigitsPrefix(Tail(s))
    ELSE << >>

RECURSIVE Decimal(_)
Decimal(ds) ==
    IF ds = << >> THEN 0
    ELSE 10 * Decimal(SubSeq(ds, 1, Len(ds) - 1)) + DigitVal(ds[Len(ds)])

\* parseInt(string): leading white space is skipped, a sign is read, then
\* the decimal digits up to the first other character; NaN when there is
\* no digit (the alphabet of the strings has no 'x' for a hex prefix)
parseInt(text) ==
    LET s == TrimLeft(text)
        signed == s # << >> /\ Head(s) \in {"-", "+"}
        ds == DigitsPrefix(IF signed THEN Tail(s) ELSE s)
    IN  IF ds = << >> THEN [nan |-> TRUE, num |-> 0]
        ELSE [nan |-> FALSE,
              num |-> IF signed /\ Head(s) = "-" THEN 0 - Decimal(ds)
                      ELSE Decimal(ds)]

ValidPipeTimeout(ms) == ~(ms < MinPipeTimeoutMs \/ ms > MaxPipeTimeoutMs)

\* /[;&|`$(){}[\]]/ (the alphabet of the commands has no backquote)
DangerousChars == {";", "&", "|", "$", "(", ")", "{", "}", "[", "]"}

\* /rm\s+-rf/
RmRf(command) ==
    \E i \in 1..Len(command), k \in 1..Len(command) :
        /\ i + k + 4 <= Len(command)
        /\ SubSeq(command, i, i + 1) = <<"r", "m">>
        /\ \A j \in (i + 2)..(i + k + 1) : command[j] = " "
        /\ SubSeq(command, i + k + 2, i + k + 4) = <<"-", "r", "f">>

\* Validator.validateCommand: .valid and .sanitized (the two pipe-to-shell
\* patterns need a '|', which the first pattern already refuses)
validateCommand(command) ==
    [valid     |-> /\ command # << >>
                   /\ \A i \in 1..Len(command) :
                          command[i] \notin DangerousChars
                   /\ ~Includes(command, <<".", ".">>)
                   /\ ~RmRf(command)
                   /\ ~Includes(command, <<"s", "u", "d", "o">>)
                   /\ ~(Len(command) > MaxCommandLen),
     sanitized |-> Trim(command)]

\* variant: the timeout test without its lower bound
ValidWatchTimeout_noFloor(ms) == ~(ms > MaxWatchTimeoutMs)

ValidWatchTimeout(ms) == ~(ms < MinWatchTimeoutMs \/ ms > MaxWatchTimeoutMs)

\* Validator.validateString: .valid and .sanitized
validateString(value, maxLength) ==
    [valid     |-> /\ value # << >>
                   /\ ~(Len(value) > maxLength)
                   /\ ~(Len(Trim(value)) = 0),
     sanitized |-> Trim(value)]

\* the loop that fills validatedPatterns: .valid is FALSE when the loop throws
RECURSIVE validatePatterns(_)
validatePatterns(patterns) ==
    IF patterns = << >> THEN [valid |-> TRUE, list |-> << >>]
    ELSE LET v == validateString(Head(patterns), MaxPatternLen)
             rest == validatePatterns(Tail(patterns))
         IN  IF ~v.valid \/ ~rest.valid
             THEN [valid |-> FALSE, list |-> << >>]
             ELSE [valid |-> TRUE, list |-> <<v.sanitized>> \o rest.list]

\* `for (const pattern of validatedPatterns) if (content.includes(pattern))`:
\* the pattern the loop stops at, NoMatch (no validated pattern is empty)
\* when it runs to its end
NoMatch == << >>

\* variant: the scan keeps the last pattern of the list that is found
RECURSIVE firstMatch_last(_, _)
firstMatch_last(patterns, content) ==
    IF patterns = << >> THEN NoMatch
    ELSE IF Includes(content, patterns[Len(patterns)])
    THEN patterns[Len(patterns)]
    ELSE firstMatch_last(SubSeq(patterns, 1, Len(patterns) - 1), content)

RECURSIVE firstMatch(_, _)
firstMatch(patterns, content) ==
    IF patterns = << >> THEN NoMatch
    ELSE IF Includes(content, Head(patterns)) THEN Head(patterns)
    ELSE firstMatch(Tail(patterns), content)

----------------------------------------------------------------------------
(* Values *)

NoTimer == -1

Idle == [kind |-> "Idle", pattern |-> << >>, cause |-> ""]
Pending == [kind |-> "Pending", pattern |-> << >>, cause |-> ""]
Matched(p) == [kind |-> "Matched", pattern |-> p, cause |-> ""]
Detected == [kind |-> "Detected", pattern |-> << >>, cause |-> ""]
AtEOF == [kind |-> "AtEOF", pattern |-> << >>, cause |-> ""]
TimedOut == [kind |-> "TimedOut", pattern |-> << >>, cause |-> ""]
Errored(c) == [kind |-> "Errored", pattern |-> << >>, cause |-> c]
\* pipeWithTimeout: "Command completed with exit code ${code}"
Exited(code) == [kind |-> "Exited", pattern |-> << >>, cause |-> code]

NoReq == [kind |-> "none", path |-> << >>, rawPatterns |-> << >>,
          patterns |-> << >>, timeoutMs |-> 0]

\* a pipeWithTimeout call that has not been made
NoCall == [command |-> << >>, targetPipe |-> << >>, timeoutMs |-> 0,
           outcome |-> Idle, delivered |-> 0, timer |-> NoTimer,
           completed |-> FALSE, child |-> "none"]

\* the pid argument of pollProcess: a string or a number, which may be NaN
PidString(text) == [type |-> "string", text |-> text, num |-> 0, nan |-> FALSE]
PidNumber(n) == [type |-> "number", text |-> << >>, num |-> n, nan |-> FALSE]
PidNaN == [type |-> "number", text |-> << >>, num |-> 0, nan |-> TRUE]

\* no pollProcess call is made
NoQuery == [pid |-> PidNaN, intervalMs |-> 0, pidNum |-> 0,
            status |-> "idle", result |-> "none", probed |-> FALSE]

\* the lines of a status file
RunningLine == [tag |-> "running", code |-> 0]
CompleteLine(n) == [tag |-> "complete", code |-> n]
ErrorLine(n) == [tag |-> "error", code |-> n]
TimeoutLine == [tag |-> "timeout", code |-> 0]
\* "$(date -Iseconds): ..."
LogLine == [tag |-> "log", code |-> 0]

NoCode == -1

\* no wrapper script exists
NoRun == [pc |-> "none", timeoutMs |-> 0, statusFile |-> << >>,
          outputFile |-> FALSE, cmd |-> "none", cmdExit |-> NoCode,
          timedOut |-> FALSE, block |-> "none", blockExit |-> NoCode,
          tee |-> "none", signalled |-> FALSE, exit |-> NoCode]

\* commandCounts.get(identifier) is undefined
NoEntry == [count |-> 0, resetTime |-> -1]

NoResponse == [tool |-> "", kind |-> "none"]
NoSpan == [tool |-> "", start |-> -1, accepted |-> 0]

\* cache.get(key) is undefined
NoCacheEntry == [value |-> -1, expiry |-> -1]

\* the two listings that are cached, and the keys used for them
Kinds == {"sessions", "layouts"}
CacheKeys == {"sessions_list", "layouts_list", "layouts_list_default"}

\* no listing and no change is in progress, and no change has returned
NoOps == [list |-> "idle", floor |-> 0, snapshot |-> 0, change |-> "idle",
          returned |-> 0]
NoListing == [value |-> -1, floor |-> 0]

Absent == [state |-> "absent", content |-> << >>]
Unreadable == [state |-> "unreadable", content |-> << >>]
Content(c) == [state |-> "ok", content |-> c]

(* Inputs *)

PathF == <<"/", "f">>
PathP == <<"/", "p">>
\* the paths that name something the environment may create
Paths == DOMAIN files
BadPath == <<".", ".">>

PatternChoices == { << >>, << <<"a">> >> }

MatchPatternChoices ==
    { << <<"a">> >>,
      << <<"a", "b">> >>,
      << <<" ", "b">>, <<"a">> >>,
      << <<"b">>, <<"a">> >> }

TimeoutChoices == {100, 200}
FileChoices == { Content(<<"c">>), Content(<<"b", "a">>) }
ChunkChoices == { <<"a">>, <<"b">> }

MatchFileChoices == { Unreadable, Content(<<"c">>), Content(<<"a", "b">>) }
MatchChunkChoices == { <<"a">>, <<"b">>, <<"a", "b">> }

\* requests that the validations are to refuse, one or more of each kind
InvalidPaths ==
    { << >>,                          \* empty
      <<"/", ".", ".", "/", "f">>,    \* a parent-directory segment
      <<"/", ";">> }                  \* a character outside the safe set

LongPattern == [i \in 1..(MaxPatternLen + 1) |-> "a"]

InvalidPatternLists ==
    { << << >> >>, << <<"a">>, << >> >>, << LongPattern >> }

InvalidWatchRequests ==
    [path : InvalidPaths, patterns : {<< >>}, ms : {MinWatchTimeoutMs}]
    \cup [path : {PathF}, patterns : InvalidPatternLists,
          ms : {MinWatchTimeoutMs}]
    \cup [path : {PathF}, patterns : {<< >>},
          ms : {MinWatchTimeoutMs - 1, MaxWatchTimeoutMs + 1}]

InvalidPipeRequests ==
    [command : {<<"c">>}, path : InvalidPaths, ms : {MinPipeTimeoutMs}]
    \cup [command : {<<"c">>}, path : {PathF},
          ms : {MinPipeTimeoutMs - 1, MaxPipeTimeoutMs + 1}]

\* the requests of the watch made next to pipeWithTimeout calls: an
\* acceptable one, and the requests above
WatchRequestChoices ==
    { [path |-> PathF, patterns |-> << <<"a">> >>, ms |-> MinWatchTimeoutMs] }
    \cup InvalidWatchRequests

\* the requests of the pipeWithTimeout calls: an acceptable one, one with a
\* command that is refused, and the requests above
PipeRequestChoices ==
    { [command |-> <<"c">>, path |-> PathF, ms |-> MinPipeTimeoutMs],
      [command |-> <<"c", ";", "c">>, path |-> PathF,
       ms |-> MinPipeTimeoutMs] }
    \cup InvalidPipeRequests

----------------------------------------------------------------------------
(* The state as one record, so that a handler is a function of the state  *)
(* and a handler that calls another is a composition.                     *)

Cur ==
    [now |-> now, files |-> files, mtime |-> mtime, prevMtime |-> prevMtime,
     watchers |-> watchers, listeners |-> listeners, req |-> req,
     outcome |-> outcome, delivered |-> delivered, timer |-> timer,
     buffer |-> buffer, found |-> found, stream |-> stream,
     firstEvent |-> firstEvent, lateRan |-> lateRan, swept |-> swept,
     processes |-> processes, calls |-> calls, run |-> run,
     procs |-> procs, query |-> query, tmp |-> tmp]

Apply(s) ==
    /\ now' = s.now
    /\ files' = s.files
    /\ mtime' = s.mtime
    /\ prevMtime' = s.prevMtime
    /\ watchers' = s.watchers
    /\ listeners' = s.listeners
    /\ req' = s.req
    /\ outcome' = s.outcome
    /\ delivered' = s.delivered
    /\ timer' = s.timer
    /\ buffer' = s.buffer
    /\ found' = s.found
    /\ stream' = s.stream
    /\ firstEvent' = s.firstEvent
    /\ lateRan' = s.lateRan
    /\ swept' = s.swept
    /\ processes' = s.processes
    /\ calls' = s.calls
    /\ run' = s.run
    /\ procs' = s.procs
    /\ query' = s.query
    /\ tmp' = s.tmp
    /\ UNCHANGED serverVars

----------------------------------------------------------------------------
(* Runtime primitives used by the handlers *)

\* variant: a result slot that every call overwrites
resolve_again(s, w, o) ==
    [s EXCEPT !.outcome[w] = o, !.delivered[w] = @ + 1]

\* resolve(v) / reject(e) of the promise built by `new Promise(...)`: the
\* first call settles the promise, every later call is ignored
resolve(s, w, o) ==
    IF s.outcome[w] = Pending
    THEN [s EXCEPT !.outcome[w] = o, !.delivered[w] = @ + 1]
    ELSE s

\* setTimeout(fn, ms)
setTimeout(s, w, ms) == [s EXCEPT !.timer[w] = s.now + ms]

\* clearTimeout(timeout)
clearTimeout(s, w) == [s EXCEPT !.timer[w] = NoTimer]

\* fs.unwatchFile(path) without a listener: every listener of the path is
\* removed and the path's StatWatcher is stopped
unwatchFile(s, path) ==
    LET Other(x) == s.req[x].path # path
    IN  [s EXCEPT !.listeners = SelectSeq(@, Other),
                  !.prevMtime[path] = 0]

\* fs.watchFile(path, listener): a StatWatcher is created for the path when
\* it has none, and the listener is added to it
watchFile_fs(s, w, path) ==
    LET Same(x) == s.req[x].path = path
        fresh == SelectSeq(s.listeners, Same) = << >>
    IN  [s EXCEPT !.listeners = Append(@, w),
                  !.prevMtime[path] = IF fresh THEN s.mtime[path] ELSE @]

\* bookkeeping: a callback of watch w starts to run
enter(s, w) ==
    [s EXCEPT !.lateRan[w] = @ \/ s.outcome[w] # Pending]

\* bookkeeping: a handler of watch w has reached a terminal branch, which
\* is about to report outcome o
note(s, w, o) ==
    [s EXCEPT !.firstEvent[w] = IF @ = Idle THEN o ELSE @]

----------------------------------------------------------------------------
(* The closures of watchPipe and watchFile *)

\* variant: one timer handle shared by the watches, so that a cleanup
\* cancels the deadline of every watch
cleanup_sharedTimer(s, w) ==
    LET s1 == [s EXCEPT !.timer = [x \in DOMAIN @ |-> NoTimer]]
        path == s.req[w].path
    IN  IF path \in s1.watchers
        THEN [unwatchFile(s1, path) EXCEPT !.watchers = @ \ {path}]
        ELSE s1

\* const cleanup = () => { clearTimeout; if (watchers.has(path)) {...} }
cleanup(s, w) ==
    LET s1 == clearTimeout(s, w)
        path == s.req[w].path
    IN  IF path \in s1.watchers
        THEN [unwatchFile(s1, path) EXCEPT !.watchers = @ \ {path}]
        ELSE s1

\* the setTimeout callback of both watches
onTimeout(s, w) ==
    resolve(cleanup(note(enter(s, w), w, TimedOut), w), w, TimedOut)

\* variant: the content read is added to what was read before, and the
\* whole is scanned
checkFile_accumulate(s, w) ==
    LET f == s.files[s.req[w].path]
        patterns == s.req[w].patterns
        s1 == [s EXCEPT !.buffer[w] = @ \o f.content]
        m == firstMatch(patterns, s1.buffer[w])
    IN  IF f.state # "ok" THEN s
        ELSE IF Len(patterns) > 0
             THEN IF m # NoMatch
                  THEN resolve(cleanup(note(s1, w, Matched(m)), w), w,
                               Matched(m))
                  ELSE s1
             ELSE resolve(cleanup(note(s1, w, Detected), w), w, Detected)

\* watchFile: const checkFile = () => {...}
checkFile(s, w) ==
    LET f == s.files[s.req[w].path]
        patterns == s.req[w].patterns
        m == firstMatch(patterns, f.content)
    IN  IF f.state = "absent" THEN s
        ELSE IF f.state = "unreadable" THEN s   \* readFileSync throws: caught
        ELSE IF Len(patterns) > 0
             THEN IF m # NoMatch
                  THEN resolve(cleanup(note(s, w, Matched(m)), w), w, Matched(m))
                  ELSE s
             ELSE resolve(cleanup(note(s, w, Detected), w), w, Detected)

\* watchFile: the listener given to fs.watchFile
onChange(s, w, curr, prev) ==
    IF curr > prev THEN checkFile(enter(s, w), w) ELSE enter(s, w)

\* variant: a chunk that does not match re-arms the deadline timer
onData_refresh(s, w, chunk) ==
    LET s1 == [enter(s, w) EXCEPT !.buffer[w] = @ \o chunk]
        patterns == s.req[w].patterns
        m == firstMatch(patterns, s1.buffer[w])
    IN  IF Len(patterns) > 0 /\ m # NoMatch
        THEN resolve(cleanup(note([s1 EXCEPT !.found[w] = TRUE], w,
                                  Matched(m)), w), w, Matched(m))
        ELSE IF s1.timer[w] # NoTimer
             THEN setTimeout(s1, w, s.req[w].timeoutMs)
             ELSE s1

\* variant: only the chunk just read is scanned, not the accumulation
onData_chunkOnly(s, w, chunk) ==
    LET s1 == [enter(s, w) EXCEPT !.buffer[w] = @ \o chunk]
        patterns == s.req[w].patterns
        m == firstMatch(patterns, chunk)
    IN  IF Len(patterns) > 0 /\ m # NoMatch
        THEN resolve(cleanup(note([s1 EXCEPT !.found[w] = TRUE], w,
                                  Matched(m)), w), w, Matched(m))
        ELSE s1

\* watchPipe: stream.on('data', ...)
onData(s, w, chunk) ==
    LET s1 == [enter(s, w) EXCEPT !.buffer[w] = @ \o chunk]
        patterns == s.req[w].patterns
        m == firstMatch(patterns, s1.buffer[w])
    IN  IF Len(patterns) > 0 /\ m # NoMatch
        THEN resolve(cleanup(note([s1 EXCEPT !.found[w] = TRUE], w,
                                  Matched(m)), w), w, Matched(m))
        ELSE s1

\* variant: an end-of-stream is reported only after a match
onEnd_onlyIfFound(s, w) ==
    IF s.found[w]
    THEN resolve(cleanup(note(enter(s, w), w, AtEOF), w), w, AtEOF)
    ELSE enter(s, w)

\* watchPipe: stream.on('end', ...)
onEnd(s, w) ==
    resolve(cleanup(note(enter(s, w), w, AtEOF), w), w, AtEOF)

\* watchPipe: stream.on('error', ...)
onError(s, w) ==
    resolve(cleanup(note(enter(s, w), w, Errored("IOError")), w), w,
            Errored("IOError"))

----------------------------------------------------------------------------
(* The calls *)

\* the three validations at the head of watchPipe and of watchFile
ValidRequest(path, patterns, ms) ==
    /\ ValidPath(path)
    /\ ValidWatchTimeout(ms)
    /\ validatePatterns(patterns).valid

\* a ValidationError thrown before the promise executor runs
throwInvalid(s, w) ==
    [s EXCEPT !.outcome[w] = Errored("InvalidInput"),
              !.delivered[w] = @ + 1]

\* the state the executor starts from: the promise exists and is pending
newPromise(s, w, kind, path, patterns, ms) ==
    [s EXCEPT !.req[w] = [kind |-> kind, path |-> path,
                          rawPatterns |-> patterns,
                          patterns |-> validatePatterns(patterns).list,
                          timeoutMs |-> ms],
              !.outcome[w] = Pending]

\* variant: the file is only looked at when a change is reported
watchFile_noCheck(s, w, path, patterns, ms) ==
    IF ~ValidRequest(path, patterns, ms) THEN throwInvalid(s, w)
    ELSE LET s1 == setTimeout(newPromise(s, w, "file", path, patterns, ms),
                              w, ms)
             s3 == watchFile_fs(s1, w, path)
         IN  [s3 EXCEPT !.watchers = @ \cup {path}]

\* DetectionTools.watchFile
watchFile(s, w, path, patterns, ms) ==
    IF ~ValidRequest(path, patterns, ms) THEN throwInvalid(s, w)
    ELSE LET s1 == setTimeout(newPromise(s, w, "file", path, patterns, ms),
                              w, ms)
             s2 == checkFile(s1, w)            \* check immediately
             s3 == watchFile_fs(s2, w, path)   \* watch for file changes
         IN  [s3 EXCEPT !.watchers = @ \cup {path}]

\* variant: a pipe that does not exist is opened all the same
watchPipe_noExistsCheck(s, w, path, patterns, ms) ==
    IF ~ValidRequest(path, patterns, ms) THEN throwInvalid(s, w)
    ELSE LET s1 == setTimeout(newPromise(s, w, "pipe", path, patterns, ms),
                              w, ms)
         IN  [s1 EXCEPT !.stream[w] = "open"]

\* DetectionTools.watchPipe
watchPipe(s, w, path, patterns, ms) ==
    IF ~ValidRequest(path, patterns, ms) THEN throwInvalid(s, w)
    ELSE LET s1 == setTimeout(newPromise(s, w, "pipe", path, patterns, ms),
                              w, ms)
         IN  IF s1.files[path].state = "absent"
             THEN resolve(cleanup(note(s1, w, Errored("NotFound")), w), w,
                          Errored("NotFound"))
             ELSE [s1 EXCEPT !.stream[w] = "open"]

----------------------------------------------------------------------------
(* pipeWithTimeout *)

\* resolve / reject of the promise of pipeWithTimeout call p
resolveCall(s, p, o) ==
    IF s.calls[p].outcome = Pending
    THEN [s EXCEPT !.calls[p].outcome = o, !.calls[p].delivered = @ + 1]
    ELSE s

\* proc.kill('SIGTERM'): the signal is sent to a child that still runs
kill(s, p) ==
    IF s.calls[p].child = "running"
    THEN [s EXCEPT !.calls[p].child = "signalled"]
    ELSE s

\* variant: the timer reports the timeout and leaves the child alone
onPipeTimeout_noKill(s, p) ==
    IF ~s.calls[p].completed
    THEN resolveCall([s EXCEPT !.calls[p].completed = TRUE,
                               !.processes = @ \ {p}],
                     p, TimedOut)
    ELSE s

\* pipeWithTimeout: the setTimeout callback
onPipeTimeout(s, p) ==
    IF ~s.calls[p].completed
    THEN LET s1 == [s EXCEPT !.calls[p].completed = TRUE]
             s2 == IF p \in s1.processes
                   THEN [kill(s1, p) EXCEPT !.processes = @ \ {p}]
                   ELSE s1
         IN  resolveCall(s2, p, TimedOut)
    ELSE s

\* pipeWithTimeout: proc.on('exit', ...)
onExit(s, p, code) ==
    IF ~s.calls[p].completed
    THEN resolveCall([s EXCEPT !.calls[p].completed = TRUE,
                               !.calls[p].timer = NoTimer,
                               !.processes = @ \ {p}],
                     p, Exited(code))
    ELSE s

\* pipeWithTimeout: proc.on('error', ...)
onProcError(s, p) ==
    IF ~s.calls[p].completed
    THEN resolveCall([s EXCEPT !.calls[p].completed = TRUE,
                               !.calls[p].timer = NoTimer,
                               !.processes = @ \ {p}],
                     p, Errored("CommandError"))
    ELSE s

\* the three validations at the head of pipeWithTimeout
ValidPipeRequest(command, targetPipe, ms) ==
    /\ validateCommand(command).valid
    /\ ValidPath(targetPipe)
    /\ ValidPipeTimeout(ms)

\* DetectionTools.pipeWithTimeout; `throws` tells whether spawn() throws
pipeWithTimeout(s, p, command, targetPipe, ms, throws) ==
    IF ~ValidPipeRequest(command, targetPipe, ms)
    THEN [s EXCEPT !.calls[p].outcome = Errored("InvalidInput"),
                   !.calls[p].delivered = @ + 1]
    ELSE LET s1 == [s EXCEPT !.calls[p] =
                        [command |-> validateCommand(command).sanitized,
                         targetPipe |-> targetPipe, timeoutMs |-> ms,
                         outcome |-> Pending, delivered |-> 0,
                         timer |-> s.now + ms, completed |-> FALSE,
                         child |-> "none"]]
         IN  IF throws
             THEN resolveCall([s1 EXCEPT !.calls[p].completed = TRUE,
                                         !.calls[p].timer = NoTimer],
                              p, Errored("SpawnFailed"))
             ELSE [s1 EXCEPT !.calls[p].child = "running",
                             !.processes = @ \cup {p}]

----------------------------------------------------------------------------
(* createLLMWrapper and the script it writes; r is the run *)

\* DetectionTools.createLLMWrapper: the script is written when the name, the
\* command and the marker are accepted; timeoutMs is not examined
createLLMWrapper(r, name, command, marker, ms) ==
    IF /\ validateString(name, MaxWrapperNameLen).valid
       /\ validateCommand(command).valid
       /\ validateString(marker, MaxMarkerLen).valid
    THEN [r EXCEPT !.pc = "generated", !.timeoutMs = ms]
    ELSE r

\* timeout $((TIMEOUT_MS / 1000))s: a duration of 0 disables the limit
TimeoutSeconds(r) == r.timeoutMs \div 1000

\* echo "running" > "$STATUS_FILE"
writeRunning(r) ==
    [r EXCEPT !.statusFile = <<RunningLine>>, !.pc = "started"]

\* echo "$(date -Iseconds): Starting LLM query" >> "$STATUS_FILE"
logStart(r) ==
    [r EXCEPT !.statusFile = Append(@, LogLine), !.pc = "logged"]

\* { timeout ... || {...}; echo "$MARKER:$?"; } | tee "$OUTPUT_FILE" &
\* LLM_PID=$! (the process of tee); wait "$LLM_PID"
spawn(r) ==
    [r EXCEPT !.block = "running", !.cmd = "running", !.tee = "alive",
              !.outputFile = TRUE, !.pc = "waiting"]

\* the command group after `timeout` has returned: the marker on success
\* (written to a pipe that tee may no longer read), a status line otherwise
blockReports(r) ==
    IF r.cmdExit = 0
    THEN [r EXCEPT !.block = "exited",
                   !.blockExit = IF r.tee = "alive" THEN 0 ELSE SigpipeExit]
    ELSE [r EXCEPT !.block = "reporting",
                   !.statusFile =
                       Append(@, IF r.cmdExit = TimeoutExit THEN TimeoutLine
                                 ELSE ErrorLine(r.cmdExit))]

\* the second echo of the failure branch, and `exit $EXIT_CODE`
blockLogs(r) ==
    [r EXCEPT !.statusFile = Append(@, LogLine), !.block = "exited",
              !.blockExit = r.cmdExit]

\* cleanup() run by the EXIT trap: LLM_PID is gone, the output file is
\* removed
exitTrap(r, code) ==
    [r EXCEPT !.outputFile = FALSE, !.pc = "done", !.exit = code]

\* wait "$LLM_PID" returns the status of the pipeline (pipefail); under
\* `set -e` a status other than 0 ends the script there, through the EXIT
\* trap, so that the `else` branch of the status update is never run
waitReturns(r) ==
    IF r.blockExit = 0 THEN [r EXCEPT !.pc = "completing"]
    ELSE exitTrap(r, r.blockExit)

\* echo "complete:$LLM_EXIT_CODE" > "$STATUS_FILE"
writeComplete(r) ==
    [r EXCEPT !.statusFile = <<CompleteLine(0)>>, !.pc = "completed"]

\* the log line, cat "$OUTPUT_FILE", exit $LLM_EXIT_CODE
finish(r) ==
    exitTrap([r EXCEPT !.statusFile = Append(@, LogLine)], 0)

\* cleanup() run by the INT/TERM trap while the script waits: LLM_PID, the
\* process of tee, is killed, and the function waits for the pipeline
onSignal(r) ==
    [r EXCEPT !.signalled = TRUE,
              !.tee = IF @ = "alive" THEN "killed" ELSE @,
              !.pc = "trapped"]

\* the pipeline has ended: cleanup() removes the output file and returns,
\* the interrupted wait fails, and the EXIT trap's cleanup() returns 1
trapReturns(r) == exitTrap(r, 1)

----------------------------------------------------------------------------
(* pollProcess; q is the call *)

\* const pidNum = typeof pid === 'string' ? parseInt(pid) : pid
ToPidNum(pid) ==
    IF pid.type = "string" THEN parseInt(pid.text)
    ELSE [nan |-> pid.nan, num |-> pid.num]

\* DetectionTools.pollProcess up to its `await`: the two validations throw,
\* otherwise ps is started
pollProcess(q, pid, intervalMs) ==
    LET n == ToPidNum(pid)
        q1 == [q EXCEPT !.pid = pid, !.intervalMs = intervalMs]
    IN  IF n.nan \/ n.num <= 0 \/ n.num > MaxPid
        THEN [q1 EXCEPT !.status = "thrown", !.result = "InvalidInput"]
        ELSE IF intervalMs < MinIntervalMs \/ intervalMs > MaxIntervalMs
        THEN [q1 EXCEPT !.status = "thrown", !.result = "InvalidInput"]
        ELSE [q1 EXCEPT !.status = "probing", !.pidNum = n.num,
                        !.probed = TRUE]

\* DetectionTools.pollProcess after its `await`: ps printed a line for a
\* running process; for another pid it exits with 1, and that error, like
\* any other error of the command, is caught and returned as text
psReturns(q, running, failed) ==
    IF ~failed /\ q.pidNum \in running
    THEN [q EXCEPT !.status = "returned", !.result = "Alive"]
    ELSE [q EXCEPT !.status = "returned", !.result = "NotFound"]

----------------------------------------------------------------------------
(* The request handler and its rate limit *)

\* variant: one counter for every tool
RateKey_shared(name) == "zellij_watch_pipe"

\* the identifier `tool_${name}`: one key of the Map for each tool name
RateKey(name) == name

\* Validator.checkRateLimit(identifier, maxRequests, windowMs) at time t:
\* the value returned and the Map it leaves
checkRateLimit(counts, identifier, maxRequests, windowMs, t) ==
    LET existing == counts[identifier]
    IN  IF existing = NoEntry \/ t > existing.resetTime
        THEN [ok |-> TRUE,
              counts |-> [counts EXCEPT ![identifier] =
                             [count |-> 1, resetTime |-> t + windowMs]]]
        ELSE IF existing.count >= maxRequests
        THEN [ok |-> FALSE, counts |-> counts]
        ELSE [ok |-> TRUE,
              counts |-> [counts EXCEPT ![identifier].count = @ + 1]]

----------------------------------------------------------------------------
(* The cache and the tools that use it *)

\* Cache.get(key) at time t: the value (-1 for null) and the Map it leaves
cacheGet(c, key, t) ==
    IF c[key] = NoCacheEntry THEN [value |-> -1, cache |-> c]
    ELSE IF t > c[key].expiry
    THEN [value |-> -1, cache |-> [c EXCEPT ![key] = NoCacheEntry]]
    ELSE [value |-> c[key].value, cache |-> c]

\* Cache.set(key, value, ttlMs) at time t
cacheSet(c, key, value, ttlMs, t) ==
    [c EXCEPT ![key] = [value |-> value, expiry |-> t + ttlMs]]

\* Cache.delete(key)
cacheDelete(c, key) == [c EXCEPT ![key] = NoCacheEntry]

\* the key a listing is stored and looked up under: 'sessions_list' in
\* listSessions, `layouts_list_${layoutsDir || 'default'}` in listLayouts
ListKey(kind) ==
    IF kind = "sessions" THEN "sessions_list" ELSE "layouts_list_default"

\* the key a change deletes: 'sessions_list' in newSession, killSession and
\* deleteSession, 'layouts_list' in saveLayout
ChangeKey(kind) ==
    IF kind = "sessions" THEN "sessions_list" ELSE "layouts_list"

Ttl(kind) == IF kind = "sessions" THEN SessionsTtlMs ELSE LayoutsTtlMs

----------------------------------------------------------------------------
(* cleanupDetection *)

\* the 'change' event of a path's StatWatcher: every listener registered
\* when the event is emitted is called, in registration order
RECURSIVE emitChange(_, _, _, _)
emitChange(s, ls, curr, prev) ==
    IF ls = << >> THEN s
    ELSE emitChange(onChange(s, Head(ls), curr, prev), Tail(ls), curr, prev)

\* the first loop of cleanupDetection
RECURSIVE unwatchAll(_, _)
unwatchAll(s, paths) ==
    IF paths = {} THEN s
    ELSE LET path == CHOOSE x \in paths : TRUE
         IN  unwatchAll(unwatchFile(s, path), paths \ {path})

InFlight(s) ==
    { w \in Watches : /\ s.outcome[w] = Pending
                      /\ s.req[w].kind = "file"
                      /\ s.req[w].path \in s.watchers }

\* the second loop of cleanupDetection
RECURSIVE killAll(_, _)
killAll(s, ids) ==
    IF ids = {} THEN s
    ELSE LET p == CHOOSE x \in ids : TRUE
         IN  killAll(kill(s, p), ids \ {p})

\* the names the find command of cleanupDetection tests for
NameConventions == {"llm-wrapper", "llm-status", "llm-output", "zellij-pipe"}

\* -mtime +1: the age of the file in periods of 24 hours, the fraction
\* set aside, is more than 1
MtimePlus(a) == a.ageHours \div HoursPerDay > RetentionDays

\* find /tmp -name "llm-wrapper-*" -o -name "llm-status-*" -o
\* -name "llm-output-*" -o -name "zellij-pipe-*" -mtime +1 -delete:
\* -o binds less than the implicit -a, so the expression is
\* A -o B -o C -o (D -a -mtime +1 -a -delete), and -delete is evaluated
\* for a file only when the three first tests fail and the two last hold
findDeletes(a) ==
    /\ ~(a.conv = "llm-wrapper")
    /\ ~(a.conv = "llm-status")
    /\ ~(a.conv = "llm-output")
    /\ a.conv = "zellij-pipe"
    /\ MtimePlus(a)

\* the third part of cleanupDetection
cleanTmp(s) == [s EXCEPT !.tmp = { a \in @ : ~findDeletes(a) }]

\* the value of `cleaned` in the text that cleanupDetection returns when
\* it is called in state s: one for each key of the watchers Map, one for
\* each value of the processes Map (kill() does not throw)
cleaned(s) == Cardinality(s.watchers) + Cardinality(s.processes)

\* DetectionTools.cleanupDetection: the watchers, then the processes,
\* then the temporary files
cleanupDetection(s) ==
    LET s1 == [unwatchAll(s, s.watchers) EXCEPT
                   !.watchers = {}, !.swept = @ \cup InFlight(s)]
        s2 == [killAll(s1, s1.processes) EXCEPT !.processes = {}]
    IN  cleanTmp(s2)

----------------------------------------------------------------------------
(* Initial state and actions *)

InitDetection(W, P, Q) ==
    /\ now = 0
    /\ files \in [P -> {Absent, Content(<<"c">>)}]
    /\ mtime = [p \in P |-> 0]
    /\ prevMtime = [p \in P |-> 0]
    /\ watchers = {}
    /\ listeners = << >>
    /\ req = [w \in W |-> NoReq]
    /\ outcome = [w \in W |-> Idle]
    /\ delivered = [w \in W |-> 0]
    /\ timer = [w \in W |-> NoTimer]
    /\ buffer = [w \in W |-> << >>]
    /\ found = [w \in W |-> FALSE]
    /\ stream = [w \in W |-> "none"]
    /\ firstEvent = [w \in W |-> Idle]
    /\ lateRan = [w \in W |-> FALSE]
    /\ swept = {}
    /\ processes = {}
    /\ calls = [q \in Q |-> NoCall]
    /\ tmp = {}

\* the tools whose calls are followed: one that is requested without
\* restraint, and one that is requested a few times in a window
BusyTool == "zellij_watch_pipe"
QuietTool == "zellij_cleanup_detection"
ToolNames == {BusyTool, QuietTool}

\* no wrapper script is generated, no process is polled and no request
\* has reached the server
InitAll(W, P, Q) ==
    /\ InitDetection(W, P, Q)
    /\ commandCounts = [name \in ToolNames |-> NoEntry]
    /\ response = NoResponse
    /\ span = NoSpan
    /\ cache = [key \in CacheKeys |-> NoCacheEntry]
    /\ zellij = [kind \in Kinds |-> 0]
    /\ ops = [kind \in Kinds |-> NoOps]
    /\ listed = [kind \in Kinds |-> NoListing]
    /\ run = NoRun
    /\ procs = {}
    /\ query = NoQuery

\* no pipeWithTimeout call is made
InitWith(W, P) == InitAll(W, P, {})

Init == InitWith(1..MaxWatches, {PathF})

\* calls are numbered in the order they are made
NextCall(w) ==
    /\ outcome[w] = Idle
    /\ \A v \in Watches : v < w => outcome[v] # Idle

CallWatchFile(w, path, patterns, ms) ==
    /\ NextCall(w)
    /\ Apply(watchFile(Cur, w, path, patterns, ms))

CallWatchPipe(w, path, patterns, ms) ==
    /\ NextCall(w)
    /\ Apply(watchPipe(Cur, w, path, patterns, ms))

\* a writer's chunk reaches the stream of watch w
Data(w, chunk) ==
    /\ stream[w] = "open"
    /\ Len(buffer[w]) + Len(chunk) <= MaxBufferLen
    /\ Apply(onData(Cur, w, chunk))

\* the writer closes its end of the pipe
End(w) ==
    /\ stream[w] = "open"
    /\ Apply(onEnd([Cur EXCEPT !.stream[w] = "ended"], w))

\* reading the pipe fails
Error(w) ==
    /\ stream[w] = "open"
    /\ Apply(onError([Cur EXCEPT !.stream[w] = "errored"], w))

\* the deadline timer of watch w fires
Timeout(w) ==
    /\ timer[w] # NoTimer
    /\ now >= timer[w]
    /\ Apply(onTimeout([Cur EXCEPT !.timer[w] = NoTimer], w))

\* the time of the next step of the clock: the clock advances by the
\* shortest timeout a watch can have, or to the earliest deadline of an
\* armed timer when that comes first
NextTime ==
    LET due == { timer[w] : w \in { v \in Watches : timer[v] > now } }
        cand == due \cup {now + MinWatchTimeoutMs}
    IN  CHOOSE d \in cand : \A e \in cand : d <= e

\* time passes; a timer that is due runs before time passes further
Tick ==
    /\ NextTime <= MaxTicks * MinWatchTimeoutMs
    /\ \A w \in Watches : timer[w] = NoTimer \/ timer[w] > now
    /\ now' = NextTime
    /\ UNCHANGED <<files, mtime, prevMtime, watchers, listeners, req,
                   outcome, delivered, timer, buffer, found, stream,
                   firstEvent, lateRan, swept, processes, calls, run,
                   procs, query, tmp>>
    /\ UNCHANGED serverVars

\* another process rewrites (or creates) the file at path
Write(path, f) ==
    /\ mtime[path] < MaxWrites
    /\ files' = [files EXCEPT ![path] = f]
    /\ mtime' = [mtime EXCEPT ![path] = @ + 1]
    /\ UNCHANGED <<now, prevMtime, watchers, listeners, req, outcome,
                   delivered, timer, buffer, found, stream, firstEvent,
                   lateRan, swept, processes, calls, run, procs, query,
                   tmp>>
    /\ UNCHANGED serverVars

\* the StatWatcher of path polls and sees a changed stat
Poll(path) ==
    LET Same(x) == req[x].path = path
        ls == SelectSeq(listeners, Same)
    IN  /\ ls # << >>
        /\ mtime[path] # prevMtime[path]
        /\ Apply(emitChange([Cur EXCEPT !.prevMtime[path] = mtime[path]],
                            ls, mtime[path], prevMtime[path]))

\* the requests of the calls: every acceptable combination, and one
\* request for each validation that can fail
RequestChoices ==
    [path : Paths, patterns : PatternChoices, ms : {MinWatchTimeoutMs}]
    \cup { [path |-> BadPath, patterns |-> << >>, ms |-> 100],
           [path |-> PathF, patterns |-> << <<" ">> >>, ms |-> 100],
           [path |-> PathF, patterns |-> << >>, ms |-> 50] }

\* cleanupDetection is called
Sweep == Apply(cleanupDetection(Cur))

Next ==
    \/ \E w \in Watches, r \in RequestChoices :
            CallWatchFile(w, r.path, r.patterns, r.ms)
    \/ \E w \in Watches, r \in RequestChoices :
            CallWatchPipe(w, r.path, r.patterns, r.ms)
    \/ \E w \in Watches, chunk \in ChunkChoices : Data(w, chunk)
    \/ \E w \in Watches : End(w)
    \/ \E w \in Watches : Error(w)
    \/ \E w \in Watches : Timeout(w)
    \/ Tick
    \/ \E path \in Paths, f \in FileChoices : Write(path, f)
    \/ \E path \in Paths : Poll(path)
    \/ Sweep

Spec == Init /\ [][Next]_vars

(* pipeWithTimeout calls next to one watch whose source stays quiet, with *)
(* requests that the validations refuse.                                  *)

InitPipe == InitAll({1}, {PathF}, 1..MaxPipes)

NextPipeCall(p) ==
    /\ calls[p].outcome = Idle
    /\ \A q \in Pipes : q < p => calls[q].outcome # Idle

CallPipeWithTimeout(p, command, targetPipe, ms, throws) ==
    /\ NextPipeCall(p)
    /\ Apply(pipeWithTimeout(Cur, p, command, targetPipe, ms, throws))

\* the child of call p exits by itself, or dies of the signal it was sent
Exit(p, code) ==
    /\ \/ calls[p].child = "running" /\ code \in {"0", "1"}
       \/ calls[p].child = "signalled" /\ code = "null"
    /\ Apply(onExit([Cur EXCEPT !.calls[p].child = "exited"], p, code))

\* the child of call p could not be started
ProcError(p) ==
    /\ calls[p].child = "running"
    /\ Apply(onProcError([Cur EXCEPT !.calls[p].child = "failed"], p))

\* the timer of call p fires
PipeTimeout(p) ==
    /\ calls[p].timer # NoTimer
    /\ now >= calls[p].timer
    /\ Apply(onPipeTimeout([Cur EXCEPT !.calls[p].timer = NoTimer], p))

\* as NextTime, with the timers of the pipeWithTimeout calls and their
\* shortest timeout
NextPipeTime ==
    LET due == { timer[w] : w \in { v \in Watches : timer[v] > now } }
               \cup { calls[p].timer :
                        p \in { q \in Pipes : calls[q].timer > now } }
        cand == due \cup {now + MinPipeTimeoutMs}
    IN  CHOOSE d \in cand : \A e \in cand : d <= e

TickPipe ==
    /\ NextPipeTime <= MaxTicks * MinPipeTimeoutMs
    /\ \A w \in Watches : timer[w] = NoTimer \/ timer[w] > now
    /\ \A p \in Pipes : calls[p].timer = NoTimer \/ calls[p].timer > now
    /\ now' = NextPipeTime
    /\ UNCHANGED <<files, mtime, prevMtime, watchers, listeners, req,
                   outcome, delivered, timer, buffer, found, stream,
                   firstEvent, lateRan, swept, processes, calls, run,
                   procs, query, tmp>>
    /\ UNCHANGED serverVars

NextPipe ==
    \/ \E w \in Watches, r \in WatchRequestChoices :
            CallWatchFile(w, r.path, r.patterns, r.ms)
    \/ \E w \in Watches, r \in WatchRequestChoices :
            CallWatchPipe(w, r.path, r.patterns, r.ms)
    \/ \E w \in Watches : Timeout(w)
    \/ \E p \in Pipes, r \in PipeRequestChoices, throws \in BOOLEAN :
            CallPipeWithTimeout(p, r.command, r.path, r.ms, throws)
    \/ \E p \in Pipes, code \in {"0", "1", "null"} : Exit(p, code)
    \/ \E p \in Pipes : ProcError(p)
    \/ \E p \in Pipes : PipeTimeout(p)
    \/ TickPipe
    \/ Sweep

SpecPipe == InitPipe /\ [][NextPipe]_vars

(* A run of a generated wrapper script.                                   *)

InitWrapper == InitAll({}, {}, {})

detectionVars_noServer ==
    <<now, files, mtime, prevMtime, watchers, listeners, req, outcome,
      delivered, timer, buffer, found, stream, firstEvent, lateRan, swept,
      processes, calls, tmp>>

detectionVars == <<detectionVars_noServer, serverVars>>

Step(r) == run' = r /\ UNCHANGED <<detectionVars, procs, query>>

CreateWrapper(name, command, marker, ms) ==
    /\ run.pc = "none"
    /\ Step(createLLMWrapper(run, name, command, marker, ms))

\* the script is started
Invoke == run.pc = "generated" /\ Step(writeRunning(run))

LogStart == run.pc = "started" /\ Step(logStart(run))

Spawn == run.pc = "logged" /\ Step(spawn(run))

\* the wrapped command exits by itself
CmdExits(code) ==
    /\ run.cmd = "running"
    /\ Step([run EXCEPT !.cmd = "exited", !.cmdExit = code])

\* the wrapped command writes to the pipe after tee was killed
CmdSigpipe ==
    /\ run.cmd = "running"
    /\ run.tee = "killed"
    /\ Step([run EXCEPT !.cmd = "exited", !.cmdExit = SigpipeExit])

\* the time limit of timeout(1) is reached: the command is sent SIGTERM
CmdTimesOut ==
    /\ run.cmd = "running"
    /\ TimeoutSeconds(run) > 0
    /\ Step([run EXCEPT !.cmd = "exited", !.cmdExit = TimeoutExit,
                        !.timedOut = TRUE])

BlockReports ==
    /\ run.block = "running"
    /\ run.cmd = "exited"
    /\ Step(blockReports(run))

BlockLogs == run.block = "reporting" /\ Step(blockLogs(run))

\* tee reads the end of its input
TeeEnds ==
    /\ run.tee = "alive"
    /\ run.block = "exited"
    /\ Step([run EXCEPT !.tee = "exited"])

WaitReturns ==
    /\ run.pc = "waiting"
    /\ run.block = "exited"
    /\ run.tee = "exited"
    /\ Step(waitReturns(run))

Complete == run.pc = "completing" /\ Step(writeComplete(run))

Finish == run.pc = "completed" /\ Step(finish(run))

\* the script is sent INT or TERM while it waits
Signal == run.pc = "waiting" /\ Step(onSignal(run))

TrapReturns ==
    /\ run.pc = "trapped"
    /\ run.block = "exited"
    /\ run.tee # "alive"
    /\ Step(trapReturns(run))

WrapperTimeoutChoices == {500, 1000, 2500}
CmdExitChoices == {0, 3, TimeoutExit}

NextWrapper ==
    \/ \E name \in {<< >>, <<"a">>}, ms \in WrapperTimeoutChoices :
            CreateWrapper(name, <<"c">>, <<"a">>, ms)
    \/ Invoke
    \/ LogStart
    \/ Spawn
    \/ \E code \in CmdExitChoices : CmdExits(code)
    \/ CmdSigpipe
    \/ CmdTimesOut
    \/ BlockReports
    \/ BlockLogs
    \/ TeeEnds
    \/ WaitReturns
    \/ Complete
    \/ Finish
    \/ Signal
    \/ TrapReturns

SpecWrapper == InitWrapper /\ [][NextWrapper]_vars

(* pollProcess calls, one after the other, while processes come and go.   *)

InitPoll == InitAll({}, {}, {})

Probe(q) == query' = q /\ UNCHANGED <<detectionVars, run, procs>>

CallPollProcess(pid, intervalMs) ==
    /\ query.status # "probing"
    /\ Probe(pollProcess(NoQuery, pid, intervalMs))

\* ps has run
PsReturns(failed) ==
    /\ query.status = "probing"
    /\ Probe(psReturns(query, procs, failed))

\* a process starts or ends
ProcStarts(pid) ==
    /\ pid \notin procs
    /\ procs' = procs \cup {pid}
    /\ UNCHANGED <<detectionVars, run, query>>

ProcEnds(pid) ==
    /\ pid \in procs
    /\ procs' = procs \ {pid}
    /\ UNCHANGED <<detectionVars, run, query>>

PidChoices ==
    { PidNumber(n) : n \in {-1, 0, 1, 7, MaxPid, MaxPid + 1} }
    \cup { PidNaN }
    \cup { PidString(text) :
             text \in { << >>, <<"7">>, <<"0">>, <<"-", "1">>, <<"a">>,
                        <<"7", "a">>, <<" ", "7">>, <<"a", "7">>,
                        <<"4", "1", "9", "4", "3", "0", "4">>,
                        <<"4", "1", "9", "4", "3", "0", "5">> } }

IntervalChoices == {MinIntervalMs - 1, 1000, MaxIntervalMs + 1}

NextPoll ==
    \/ \E pid \in PidChoices, ms \in IntervalChoices :
            CallPollProcess(pid, ms)
    \/ \E failed \in BOOLEAN : PsReturns(failed)
    \/ ProcStarts(7)
    \/ ProcEnds(7)

SpecPoll == InitPoll /\ [][NextPoll]_vars

(* One watch at a time, with pattern lists, contents and chunks that tell *)
(* the order of the list from the order in the content.                   *)

InitMatch == InitWith({1}, {PathF})

NextMatch ==
    \/ \E w \in Watches, path \in Paths, patterns \in MatchPatternChoices,
          ms \in TimeoutChoices :
            CallWatchFile(w, path, patterns, ms)
    \/ \E w \in Watches, path \in Paths, patterns \in MatchPatternChoices,
          ms \in TimeoutChoices :
            CallWatchPipe(w, path, patterns, ms)
    \/ \E w \in Watches, chunk \in MatchChunkChoices : Data(w, chunk)
    \/ \E w \in Watches : End(w)
    \/ \E w \in Watches : Error(w)
    \/ \E w \in Watches : Timeout(w)
    \/ Tick
    \/ \E path \in Paths, f \in MatchFileChoices : Write(path, f)
    \/ \E path \in Paths : Poll(path)
    \/ Sweep

SpecMatch == InitMatch /\ [][NextMatch]_vars

(* Sweeps while a watch and a pipeWithTimeout call come and go and while  *)
(* other programs leave artifacts of various names and ages in /tmp.      *)

InitSweep == InitAll({1}, {PathF}, {1})

\* an artifact with name convention conv, last modified ageHours ago
Artifact(conv, ageHours) == [conv |-> conv, ageHours |-> ageHours]

\* the names: one of each convention and one of none; the ages: less than
\* a day, between one and two days, more than two days
ArtifactChoices ==
    { Artifact(conv, age) :
        conv \in NameConventions \cup {"other"}, age \in {1, 30, 72} }

\* an artifact is found in /tmp
Touch(a) ==
    /\ Cardinality(tmp) < MaxArtifacts
    /\ a \notin tmp
    /\ tmp' = tmp \cup {a}
    /\ UNCHANGED <<now, files, mtime, prevMtime, watchers, listeners, req,
                   outcome, delivered, timer, buffer, found, stream,
                   firstEvent, lateRan, swept, processes, calls, run,
                   procs, query>>
    /\ UNCHANGED serverVars

NextSweep ==
    \/ \E w \in Watches, patterns \in PatternChoices :
            CallWatchFile(w, PathF, patterns, MinWatchTimeoutMs)
    \/ \E w \in Watches, patterns \in PatternChoices :
            CallWatchPipe(w, PathF, patterns, MinWatchTimeoutMs)
    \/ \E w \in Watches : End(w)
    \/ \E w \in Watches : Timeout(w)
    \/ \E p \in Pipes, throws \in BOOLEAN :
            CallPipeWithTimeout(p, <<"c">>, PathF, MinPipeTimeoutMs, throws)
    \/ \E p \in Pipes, code \in {"0", "null"} : Exit(p, code)
    \/ \E p \in Pipes : ProcError(p)
    \/ \E p \in Pipes : PipeTimeout(p)
    \/ TickPipe
    \/ \E a \in ArtifactChoices : Touch(a)
    \/ Sweep

SpecSweep == InitSweep /\ [][NextSweep]_vars

(* Requests for two tools reach the server while time passes.             *)

InitRate == InitAll({}, {}, {})

\* the handler of CallToolRequestSchema for a request that names tool
\* `name`: the rate limit is tested first, and the tool is run or a
\* SecurityError is thrown
CallTool(name) ==
    LET r == checkRateLimit(commandCounts, RateKey(name), ToolMaxRequests,
                            ToolWindowMs, now)
    IN  /\ commandCounts' = r.counts
        /\ response' = [tool |-> name,
                        kind |-> IF r.ok THEN "ran" ELSE "SecurityError"]
        /\ span' = IF /\ r.ok
                      /\ span.tool = name
                      /\ now < span.start + ToolWindowMs
                   THEN [span EXCEPT !.accepted = @ + 1]
                   ELSE span
        /\ UNCHANGED <<detectionVars_noServer, run, procs, query, cacheVars>>

\* a span of 60 seconds that starts now is picked for tool `name`
Observe(name) ==
    /\ span = NoSpan
    /\ span' = [tool |-> name, start |-> now, accepted |-> 0]
    /\ UNCHANGED <<detectionVars_noServer, run, procs, query, commandCounts,
                   response, cacheVars>>

\* the times at which requests arrive: the start of a window of the
\* length of the rate limit's, and one millisecond later
RateTimes ==
    { k * ToolWindowMs + e : k \in 0..MaxWindows, e \in {0, 1} }

\* time passes until t
Advance(t) ==
    /\ t > now
    /\ now' = t
    /\ UNCHANGED <<files, mtime, prevMtime, watchers, listeners, req,
                   outcome, delivered, timer, buffer, found, stream,
                   firstEvent, lateRan, swept, processes, calls, run,
                   procs, query, tmp>>
    /\ UNCHANGED serverVars

\* the requests that arrive
Requested(name) ==
    name = QuietTool => commandCounts[QuietTool].count < MaxQuietRequests

NextRate ==
    \/ \E name \in ToolNames : Requested(name) /\ CallTool(name)
    \/ \E name \in ToolNames : Observe(name)
    \/ \E t \in RateTimes : Advance(t)

SpecRate == InitRate /\ [][NextRate]_vars

(* A pipe watch and a file watch with patterns of two characters, while   *)
(* the pipe's writer sends one character at a time and the file is        *)
(* rewritten from one version to the next.                                *)

InitSplit == InitWith({1, 2}, {PathF, PathP})

SplitPatternChoices == { << <<"a", "b">> >>, << <<"c", "a">> >> }

\* the file at path, watched, is rewritten from its first version
Rewrite(path) ==
    LET Same(x) == req[x].path = path
    IN  /\ files[path] = Content(<<"c">>)
        /\ SelectSeq(listeners, Same) # << >>
        /\ Write(path, Content(<<"a", "b">>))

NextSplit ==
    \/ \E patterns \in SplitPatternChoices :
            CallWatchPipe(1, PathP, patterns, MinWatchTimeoutMs)
    \/ \E patterns \in SplitPatternChoices :
            CallWatchFile(2, PathF, patterns, MinWatchTimeoutMs)
    \/ \E w \in Watches, chunk \in ChunkChoices : Data(w, chunk)
    \/ \E w \in Watches : End(w)
    \/ \E w \in Watches : Timeout(w)
    \/ Tick
    \/ Rewrite(PathF)
    \/ \E path \in Paths : Poll(path)

SpecSplit == InitSplit /\ [][NextSplit]_vars

(* Listings and changes of the sessions and of the layouts.               *)

InitCache == InitAll({}, {}, {})

CacheStep ==
    UNCHANGED <<detectionVars_noServer, run, procs, query, commandCounts,
                response, span>>

\* listSessions up to its `await`: the cached text is returned, or
\* `zellij list-sessions` is started
ListSessionsCall ==
    LET kind == "sessions"
        got == cacheGet(cache, ListKey(kind), now)
    IN  /\ ops[kind].list = "idle"
        /\ cache' = got.cache
        /\ IF got.value # -1
           THEN /\ listed' = [listed EXCEPT ![kind] =
                                 [value |-> got.value,
                                  floor |-> ops[kind].returned]]
                /\ ops' = ops
           ELSE /\ ops' = [ops EXCEPT ![kind].list = "started",
                                      ![kind].floor = ops[kind].returned]
                /\ listed' = listed
        /\ UNCHANGED zellij
        /\ CacheStep

\* `zellij list-sessions` reads the sessions
ListSessionsExec ==
    /\ ops["sessions"].list = "started"
    /\ ops' = [ops EXCEPT !["sessions"].list = "read",
                          !["sessions"].snapshot = zellij["sessions"]]
    /\ UNCHANGED <<cache, zellij, listed>>
    /\ CacheStep

\* listSessions after its `await`: the output is cached and returned
ListSessionsReturn ==
    LET kind == "sessions"
    IN  /\ ops[kind].list = "read"
        /\ cache' = cacheSet(cache, ListKey(kind), ops[kind].snapshot,
                             Ttl(kind), now)
        /\ listed' = [listed EXCEPT ![kind] =
                         [value |-> ops[kind].snapshot,
                          floor |-> ops[kind].floor]]
        /\ ops' = [ops EXCEPT ![kind].list = "idle"]
        /\ UNCHANGED zellij
        /\ CacheStep

\* listLayouts: the cached text is returned, or the directory is read and
\* the text is cached and returned; the function does not wait
ListLayouts ==
    LET kind == "layouts"
        got == cacheGet(cache, ListKey(kind), now)
        value == IF got.value # -1 THEN got.value ELSE zellij[kind]
    IN  /\ cache' = IF got.value # -1 THEN got.cache
                    ELSE cacheSet(got.cache, ListKey(kind), zellij[kind],
                                  Ttl(kind), now)
        /\ listed' = [listed EXCEPT ![kind] =
                         [value |-> value, floor |-> ops[kind].returned]]
        /\ UNCHANGED <<zellij, ops>>
        /\ CacheStep

\* newSession, killSession, deleteSession and saveLayout up to their
\* `await`: a zellij command is started
ChangeCall(kind) ==
    /\ ops[kind].change = "idle"
    /\ zellij[kind] < MaxChanges
    /\ ops' = [ops EXCEPT ![kind].change = "started"]
    /\ UNCHANGED <<cache, zellij, listed>>
    /\ CacheStep

\* the command of a session change has done its work
SessionChangeExec ==
    /\ ops["sessions"].change = "started"
    /\ zellij' = [zellij EXCEPT !["sessions"] = @ + 1]
    /\ ops' = [ops EXCEPT !["sessions"].change = "done"]
    /\ UNCHANGED <<cache, listed>>
    /\ CacheStep

\* newSession, killSession, deleteSession after their `await`: the key is
\* deleted and the call returns
SessionChangeReturn ==
    LET kind == "sessions"
    IN  /\ ops[kind].change = "done"
        /\ cache' = cacheDelete(cache, ChangeKey(kind))
        /\ ops' = [ops EXCEPT ![kind].change = "idle",
                              ![kind].returned = zellij[kind]]
        /\ UNCHANGED <<zellij, listed>>
        /\ CacheStep

\* saveLayout after `await execAsync('zellij action dump-layout')`: the
\* layout file is written, the key is deleted and the call returns
SaveLayoutReturn ==
    LET kind == "layouts"
    IN  /\ ops[kind].change = "started"
        /\ zellij' = [zellij EXCEPT ![kind] = @ + 1]
        /\ cache' = cacheDelete(cache, ChangeKey(kind))
        /\ ops' = [ops EXCEPT ![kind].change = "idle",
                              ![kind].returned = zellij[kind] + 1]
        /\ UNCHANGED listed
        /\ CacheStep

\* the times of the requests: within the time a cached listing is kept,
\* and just after it
CacheTimes == {1, SessionsTtlMs + 1, LayoutsTtlMs + 1}

NextCache ==
    \/ ListSessionsCall
    \/ ListSessionsExec
    \/ ListSessionsReturn
    \/ ListLayouts
    \/ \E kind \in Kinds : ChangeCall(kind)
    \/ SessionChangeExec
    \/ SessionChangeReturn
    \/ SaveLayoutReturn
    \/ \E t \in CacheTimes : Advance(t)

SpecCache == InitCache /\ [][NextCache]_vars

(* Two watches on the same path, at the same time or one after a sweep.   *)

InitSame == InitWith({1, 2}, {PathF})

NextSame ==
    \/ \E w \in Watches, ms \in TimeoutChoices :
            CallWatchFile(w, PathF, << <<"a">> >>, ms)
    \/ \E w \in Watches, ms \in TimeoutChoices :
            CallWatchPipe(w, PathF, << <<"a">> >>, ms)
    \/ \E w \in Watches : Data(w, <<"b">>)
    \/ \E w \in Watches : End(w)
    \/ \E w \in Watches : Timeout(w)
    \/ Tick
    \/ \E path \in Paths : Write(path, Content(<<"b", "a">>))
    \/ \E path \in Paths : Poll(path)
    \/ Sweep

SpecSame == InitSame /\ [][NextSame]_vars

(* Two watches at the same time, each on a target path of its own, with   *)
(* timeouts that give them different deadlines.                           *)

InitTwo == InitWith({1, 2}, {PathF, PathP})

TargetOf(w) == IF w = 1 THEN PathF ELSE PathP

NextTwo ==
    \/ \E w \in Watches, patterns \in PatternChoices, ms \in TimeoutChoices :
            CallWatchFile(w, TargetOf(w), patterns, ms)
    \/ \E w \in Watches, patterns \in PatternChoices, ms \in TimeoutChoices :
            CallWatchPipe(w, TargetOf(w), patterns, ms)
    \/ \E w \in Watches : Data(w, <<"a">>)
    \/ \E w \in Watches : End(w)
    \/ \E w \in Watches : Error(w)
    \/ \E w \in Watches : Timeout(w)
    \/ Tick
    \/ \E path \in Paths : Write(path, Content(<<"b", "a">>))
    \/ \E path \in Paths : Poll(path)
    \/ Sweep

SpecTwo == InitTwo /\ [][NextTwo]_vars

----------------------------------------------------------------------------
(* Properties *)

Started(w) == req[w] # NoReq
Settled(w) == outcome[w].kind \notin {"Idle", "Pending"}
Subscribed(w) == \E i \in 1..Len(listeners) : listeners[i] = w

\* the content a watch scans: the file as it is read, or the accumulation
Observed(w) ==
    IF req[w].kind = "file" THEN files[req[w].path].content ELSE buffer[w]

\* C1: under every interleaving of match, end-of-stream, stream error and
\* deadline timer, the caller of a watch observes at most one outcome, it is
\* the outcome of the first terminal branch that ran, and a watch that has
\* not delivered yet still has its deadline timer armed, so that it will.
ExactlyOnce ==
    \A w \in Watches :
        /\ delivered[w] <= 1
        /\ (delivered[w] = 1) <=> Settled(w)
        /\ (Started(w) /\ Settled(w)) => firstEvent[w] # Idle
        /\ firstEvent[w] # Idle => outcome[w] = firstEvent[w]
        /\ outcome[w] = Pending => timer[w] # NoTimer

\* a watch has delivered and a later event of it was processed
ExactlyOnceWitness ==
    \E w \in Watches : Started(w) /\ delivered[w] = 1 /\ lateRan[w]

\* C2: once a watch has delivered its outcome (and no other watch on the
\* same path is still waiting), the registry holds no entry for its path.
NoEntryAfterCompletion ==
    \A w \in Watches :
        ( /\ Started(w)
          /\ Settled(w)
          /\ \A v \in Watches :
                (Started(v) /\ req[v].path = req[w].path) => Settled(v) )
        => req[w].path \notin watchers

\* C3: a watch that is waiting has an entry in the registry, and the entry
\* is gone when the outcome is delivered.
RegisteredWhileWatching ==
    \A w \in Watches :
        /\ (Started(w) /\ outcome[w] = Pending) => req[w].path \in watchers
        /\ (Started(w) /\ Settled(w) /\ \A v \in Watches : v # w => ~Started(v))
           => req[w].path \notin watchers

\* C4: after a terminal transition the source is closed and the timer is
\* cancelled, and no callback of the watch runs again.
LateCallbacksAreNoOps ==
    \A w \in Watches :
        /\ ~lateRan[w]
        /\ (Started(w) /\ Settled(w))
           => /\ timer[w] = NoTimer
              /\ stream[w] # "open"
              /\ ~Subscribed(w)

\* C5: the deadline of a watch is armed at its start for start + timeout;
\* while the watch waits, no chunk and no file change moves the deadline and
\* time does not pass it; the watch times out at the deadline, not before,
\* and no outcome is delivered after the deadline.
DeadlineFromStart ==
    [][\A w \in Watches :
          /\ (outcome[w] = Idle /\ outcome'[w] = Pending)
             => timer'[w] = now + req'[w].timeoutMs
          /\ (outcome[w] = Pending /\ outcome'[w] = Pending)
             => (timer'[w] = timer[w] /\ now' <= timer[w])
          /\ (outcome[w] = Pending /\ outcome'[w] = TimedOut)
             => now = timer[w]
          /\ (outcome[w] = Pending /\ outcome'[w] # Pending)
             => now <= timer[w]]_vars

\* a pipe watch read a chunk that did not match and then timed out
DeadlineFromStartWitness ==
    \E w \in Watches :
        /\ outcome[w] = TimedOut
        /\ buffer[w] # << >>
        /\ ~lateRan[w]

\* the step in which watch w delivers a match
DeliversMatch(w) ==
    /\ outcome[w].kind \in {"Idle", "Pending"}
    /\ outcome'[w].kind = "Matched"

\* the first position of p in content (p occurs in content)
FirstPos(content, p) ==
    CHOOSE i \in 0..(Len(content) - Len(p)) :
        /\ SubSeq(content, i + 1, i + Len(p)) = p
        /\ \A j \in 0..(i - 1) : SubSeq(content, j + 1, j + Len(p)) # p

\* C6: a watchFile call on a file whose content, as read by the call,
\* contains a requested pattern delivers Matched within the call itself,
\* and the deadline timer is cancelled.
ImmediateMatch ==
    [][\A w \in Watches :
          ( /\ outcome[w] = Idle
            /\ req'[w].kind = "file"
            /\ files[req'[w].path].state = "ok"
            /\ \E i \in 1..Len(req'[w].rawPatterns) :
                  Includes(files[req'[w].path].content,
                           req'[w].rawPatterns[i]) )
          => /\ outcome'[w].kind = "Matched"
             /\ timer'[w] = NoTimer]_vars

\* a file watch that matched in the call that started it: no callback of
\* it has run, and its change subscription, made after the immediate
\* check, is still there
ImmediateMatchWitness ==
    \E w \in Watches :
        /\ req[w].kind = "file"
        /\ outcome[w].kind = "Matched"
        /\ Subscribed(w)
        /\ ~lateRan[w]

\* C7 as stated: the reported pattern is the first element p of the
\* request's pattern list such that p is a substring of the content.
FirstRequestedPatternWins ==
    [][\A w \in Watches :
          DeliversMatch(w) =>
              LET raw == req'[w].rawPatterns
                  content == Observed(w)'
              IN  \E i \in 1..Len(raw) :
                      /\ outcome'[w].pattern = raw[i]
                      /\ Includes(content, raw[i])
                      /\ \A j \in 1..(i - 1) : ~Includes(content, raw[j])]_vars

\* C7 amended: the reported pattern is trim(p) for the first element p of
\* the request's pattern list such that trim(p) is a substring of the
\* content, wherever the patterns occur in the content.
FirstTrimmedPatternWins ==
    [][\A w \in Watches :
          DeliversMatch(w) =>
              LET raw == req'[w].rawPatterns
                  content == Observed(w)'
              IN  \E i \in 1..Len(raw) :
                      /\ outcome'[w].pattern = Trim(raw[i])
                      /\ Includes(content, Trim(raw[i]))
                      /\ \A j \in 1..(i - 1) :
                            ~Includes(content, Trim(raw[j]))]_vars

\* a watch reported a pattern although a pattern later in the list occurs
\* earlier in the content
FirstTrimmedPatternWinsWitness ==
    \E w \in Watches :
        /\ outcome[w].kind = "Matched"
        /\ ~lateRan[w]
        /\ \E i, j \in 1..Len(req[w].patterns) :
              /\ i < j
              /\ req[w].patterns[i] = outcome[w].pattern
              /\ Includes(Observed(w), req[w].patterns[i])
              /\ Includes(Observed(w), req[w].patterns[j])
              /\ FirstPos(Observed(w), req[w].patterns[j])
                    < FirstPos(Observed(w), req[w].patterns[i])

\* C8: when a pipe watch that is waiting reads a chunk and the accumulated
\* data contains a requested pattern, it delivers Matched, with a requested
\* pattern that the data contains, in the step that reads the chunk, which
\* is not later than the deadline.
PipeMatchAtRead ==
    [][\A w \in Watches :
          ( /\ req[w].kind = "pipe"
            /\ outcome[w] = Pending
            /\ buffer'[w] # buffer[w]
            /\ \E i \in 1..Len(req[w].rawPatterns) :
                  Includes(buffer'[w], req[w].rawPatterns[i]) )
          => /\ outcome'[w].kind = "Matched"
             /\ \E i \in 1..Len(req[w].rawPatterns) :
                   outcome'[w].pattern = Trim(req[w].rawPatterns[i])
             /\ Includes(buffer'[w], outcome'[w].pattern)
             /\ now <= timer[w]]_vars

\* a pipe watch has matched, on a pattern completed by a second chunk, at
\* a time that is earlier than its timeout, hence than its deadline
PipeMatchAtReadWitness ==
    \E w \in Watches :
        /\ req[w].kind = "pipe"
        /\ outcome[w].kind = "Matched"
        /\ ~lateRan[w]
        /\ now < req[w].timeoutMs
        /\ Len(buffer[w]) > 1
        /\ ~Includes(SubSeq(buffer[w], 1, Len(buffer[w]) - 1),
                     outcome[w].pattern)

\* C9: a watch whose entry the sweep removed has been delivered
\* Errored{Cancelled}, and nothing else.
SweepCancels ==
    \A w \in swept : outcome[w] = Errored("Cancelled")

\* C10: a watch caught by a sweep delivers at most one outcome, and its
\* timer and its change subscription are released when its entry leaves the
\* registry.
SweepReleasesResources ==
    \A w \in swept :
        /\ delivered[w] <= 1
        /\ req[w].path \notin watchers
              => (timer[w] = NoTimer /\ ~Subscribed(w))

\* the step runs a handler of watch v: the call that starts it, a chunk,
\* an end or an error of its stream, its timer, its change listener
Acts(v) ==
    \/ outcome'[v] # outcome[v]
    \/ timer'[v] # timer[v]
    \/ buffer'[v] # buffer[v]
    \/ stream'[v] # stream[v]
    \/ lateRan'[v] # lateRan[v]

\* C11: of two watches on distinct target paths, a step of one (its start,
\* its match, its end-of-stream, its I/O error, its timeout) leaves the
\* outcome, the deadline, the registry entry and the change subscription
\* of the other as they were.
WatchesIndependent ==
    [][\A v, w \in Watches :
          ( /\ v # w
            /\ Started(w)
            /\ req'[v].path # req[w].path
            /\ Acts(v) )
          => /\ outcome'[w] = outcome[w]
             /\ timer'[w] = timer[w]
             /\ (req[w].path \in watchers') <=> (req[w].path \in watchers)
             /\ Subscribed(w)' <=> Subscribed(w)]_vars

\* one watch has timed out at its deadline while the other, on another
\* path and with a later deadline, still waits with its entry in place
WatchesIndependentWitness ==
    \E v, w \in Watches :
        /\ req[v].path # req[w].path
        /\ outcome[v] = TimedOut
        /\ outcome[w] = Pending
        /\ timer[w] > now
        /\ req[w].path \in watchers
        /\ Subscribed(w)

\* the call of watch w threw a validation error and created nothing
Rejected(w) ==
    /\ outcome'[w] = Errored("InvalidInput")
    /\ delivered'[w] = 1
    /\ UNCHANGED <<req, timer, stream, buffer, watchers, listeners,
                   processes, calls>>

\* pipeWithTimeout call p threw a validation error and created nothing
RejectedCall(p) ==
    /\ calls'[p] = [NoCall EXCEPT !.outcome = Errored("InvalidInput"),
                                  !.delivered = 1]
    /\ \A q \in Pipes \ {p} : calls'[q] = calls[q]
    /\ UNCHANGED <<req, outcome, timer, stream, watchers, listeners,
                   processes>>

\* C12: a watchFile, watchPipe or pipeWithTimeout call whose path is empty,
\* has a parent-directory segment or a character outside the safe set,
\* whose pattern list has an empty or over-long pattern, or whose timeout
\* is outside its bounds, throws a validation error and creates no timer,
\* no stream, no subscription, no child process and no registry entry.
ValidationFirst ==
    [][/\ \A w \in Watches, r \in InvalidWatchRequests :
             ( \/ CallWatchFile(w, r.path, r.patterns, r.ms)
               \/ CallWatchPipe(w, r.path, r.patterns, r.ms) )
             => Rejected(w)
       /\ \A p \in Pipes, r \in InvalidPipeRequests, throws \in BOOLEAN :
             CallPipeWithTimeout(p, r.command, r.path, r.ms, throws)
             => RejectedCall(p)]_vars

\* a watch call and a pipeWithTimeout call were both refused while a child
\* process of an earlier call was registered, and its entry is still there
ValidationFirstWitness ==
    /\ \E w \in Watches : outcome[w] = Errored("InvalidInput")
    /\ \E p, q \in Pipes :
          /\ p < q
          /\ calls[q].outcome = Errored("InvalidInput")
          /\ calls[p].outcome = Pending
          /\ p \in processes

\* the step is an accepted call of watch w on a target that does not exist
StartsOnMissing(w) ==
    /\ outcome[w] = Idle
    /\ Started(w)'
    /\ files[req'[w].path].state = "absent"

\* C13 as stated: a watchFile or watchPipe call whose target does not exist
\* fails in the call with NotFound, registers no watcher and leaves no
\* timer armed.
MissingTargetFails ==
    [][\A w \in Watches :
          StartsOnMissing(w)
          => /\ outcome'[w] = Errored("NotFound")
             /\ timer'[w] = NoTimer
             /\ req'[w].path \notin watchers'
             /\ ~Subscribed(w)']_vars

\* C13 amended: a watchPipe call whose target does not exist fails in the
\* call with NotFound, registers nothing, opens no stream and leaves no
\* timer armed; a watchFile call whose target does not exist does not
\* fail: it registers its watcher, keeps its timer armed and waits, and a
\* change reported once the file exists makes it check the file.
MissingPipeFailsFileWaits ==
    [][\A w \in Watches :
          /\ (StartsOnMissing(w) /\ req'[w].kind = "pipe")
             => /\ outcome'[w] = Errored("NotFound")
                /\ timer'[w] = NoTimer
                /\ stream'[w] = "none"
                /\ watchers' = watchers
                /\ ~Subscribed(w)'
          /\ (StartsOnMissing(w) /\ req'[w].kind = "file")
             => /\ outcome'[w] = Pending
                /\ timer'[w] = now + req'[w].timeoutMs
                /\ req'[w].path \in watchers'
                /\ Subscribed(w)'
          /\ ( /\ req[w].kind = "file"
               /\ outcome[w] = Pending
               /\ Subscribed(w)
               /\ req[w].patterns = << >>
               /\ files[req[w].path].state = "ok"
               /\ Poll(req[w].path) )
             => outcome'[w] = Detected]_vars

\* a pipe watch was refused for its missing pipe while a file watch on a
\* file that does not exist waits, registered and with its timer armed
MissingPipeFailsFileWaitsWitness ==
    \E v, w \in Watches :
        /\ outcome[v] = Errored("NotFound")
        /\ req[w].kind = "file"
        /\ files[req[w].path].state = "absent"
        /\ outcome[w] = Pending
        /\ req[w].path \in watchers
        /\ timer[w] > now

\* the step is a failed read of the source of watch w: an error of its open
\* stream, or a reported change of its file that cannot be read
ReadFails(w) ==
    \/ /\ req[w].kind = "pipe"
       /\ stream[w] = "open"
       /\ stream'[w] = "errored"
    \/ /\ req[w].kind = "file"
       /\ Subscribed(w)
       /\ files[req[w].path].state = "unreadable"
       /\ mtime[req[w].path] > prevMtime[req[w].path]
       /\ Poll(req[w].path)

\* C14: a read that fails while a watch waits, on a pipe or on a file,
\* makes the watch deliver Errored with the cause in that step, so that it
\* is neither ignored nor reported later as TimedOut.
ReadErrorResolvesErrored ==
    [][\A w \in Watches :
          (outcome[w] = Pending /\ ReadFails(w))
          => outcome'[w] = Errored("IOError")]_vars

\* watch w waits, was asked for no pattern, and the step reads a chunk
PatternlessChunk(w) ==
    /\ req[w].kind = "pipe"
    /\ req[w].rawPatterns = << >>
    /\ outcome[w] = Pending
    /\ buffer'[w] # buffer[w]

\* C15 as stated: without patterns a pipe watch resolves successfully on
\* the first chunk it reads.
PatternlessChunkResolves ==
    [][\A w \in Watches :
          PatternlessChunk(w)
          => outcome'[w].kind \in {"Matched", "Detected", "AtEOF"}]_vars

\* C15 amended: without patterns, a pipe watch is not resolved by a chunk
\* (it keeps waiting, with its deadline unchanged) and resolves AtEOF when
\* the stream ends; a file watch resolves Detected as soon as its file is
\* read, in the call or at a reported change.
PatternlessResolvesAtEOF ==
    [][\A w \in Watches :
          /\ PatternlessChunk(w)
             => (outcome'[w] = Pending /\ timer'[w] = timer[w])
          /\ ( /\ req[w].kind = "pipe"
               /\ req[w].rawPatterns = << >>
               /\ outcome[w] = Pending
               /\ stream[w] = "open"
               /\ stream'[w] = "ended" )
             => outcome'[w] = AtEOF
          /\ ( /\ outcome[w] = Idle
               /\ req'[w].kind = "file"
               /\ req'[w].rawPatterns = << >>
               /\ files[req'[w].path].state = "ok" )
             => outcome'[w] = Detected
          /\ ( /\ req[w].kind = "file"
               /\ req[w].rawPatterns = << >>
               /\ outcome[w] = Pending
               /\ Subscribed(w)
               /\ files[req[w].path].state = "ok"
               /\ mtime[req[w].path] > prevMtime[req[w].path]
               /\ Poll(req[w].path) )
             => outcome'[w] = Detected]_vars

\* a pipe watch without patterns read a chunk, kept waiting, and resolved
\* when the writer closed the pipe
PatternlessResolvesAtEOFWitness ==
    \E w \in Watches :
        /\ req[w].kind = "pipe"
        /\ req[w].rawPatterns = << >>
        /\ buffer[w] # << >>
        /\ outcome[w] = AtEOF

\* the canonical value of the status artifact of run r: its first line
Canonical(r) ==
    IF r.statusFile = << >> THEN [tag |-> "none", code |-> 0]
    ELSE Head(r.statusFile)

Terminal(line) == line.tag \in {"complete", "error", "timeout"}

\* the terminal value that the outcome of the wrapped command calls for
Expected(r) ==
    IF r.timedOut THEN TimeoutLine
    ELSE IF r.cmdExit = 0 THEN CompleteLine(0)
    ELSE ErrorLine(r.cmdExit)

\* C16: in a run that is not interrupted, the canonical status goes from
\* `running` to one terminal value and then never changes, and when the
\* script exits that value is complete:0 for exit code 0, error:N for exit
\* code N # 0, timeout when the time limit was reached.
StatusStateMachine ==
    [][/\ Canonical(run') # Canonical(run)
          => \/ Canonical(run') = RunningLine /\ ~Terminal(Canonical(run))
             \/ Canonical(run) = RunningLine /\ Terminal(Canonical(run'))
       /\ (run'.pc = "done" /\ ~run'.signalled)
          => Canonical(run') = Expected(run')]_vars

\* C17: when the time limit is reached in a run that is not interrupted,
\* the script exits with 124 with the command ended and `timeout` as the
\* canonical status, and once `timeout` is written no status is written
\* after it.
TimeoutIsFinal ==
    [][/\ (run'.pc = "done" /\ run'.timedOut /\ ~run'.signalled)
          => /\ Canonical(run') = TimeoutLine
             /\ run'.exit = TimeoutExit
             /\ run'.cmd = "exited"
       /\ (\E i \in 1..Len(run.statusFile) :
              run.statusFile[i] = TimeoutLine)
          => \/ run'.statusFile = run.statusFile
             \/ run'.statusFile = Append(run.statusFile, LogLine)]_vars

\* C18: a status value is only ever written as the whole content of the
\* status artifact, so that every line after the first is a log line, and
\* when the script has exited the first line is not `running`.
StatusIsReplaced ==
    /\ \A i \in 2..Len(run.statusFile) : run.statusFile[i] = LogLine
    /\ run.pc = "done" => Canonical(run) # RunningLine

\* C19: when the script was interrupted while the command ran, it exits
\* with a terminal canonical status, with no process of the pipeline left
\* alive and with the output artifact removed.
InterruptStillReports ==
    (run.pc = "done" /\ run.signalled)
    => /\ Terminal(Canonical(run))
       /\ run.cmd # "running"
       /\ run.block \notin {"running", "reporting"}
       /\ run.tee # "alive"
       /\ ~run.outputFile

\* a string that is a decimal number: digits only, after an optional sign,
\* white space around it set aside
NumericString(text) ==
    LET s == Trim(text)
        body == IF s # << >> /\ Head(s) \in {"-", "+"} THEN Tail(s) ELSE s
    IN  body # << >> /\ \A i \in 1..Len(body) : IsDigit(body[i])

\* a pid that is not numeric, not positive or out of range
InvalidPid(pid) ==
    IF pid.type = "string"
    THEN \/ ~NumericString(pid.text)
         \/ parseInt(pid.text).num <= 0
         \/ parseInt(pid.text).num > MaxPid
    ELSE pid.nan \/ pid.num <= 0 \/ pid.num > MaxPid

\* the step is a pollProcess call
PollCalled == query.status # "probing" /\ query' # query

\* C20: a pollProcess call with a non-numeric, non-positive or out-of-range
\* pid throws InvalidInput without running ps; with a valid pid (and a valid
\* interval) it does not throw, and when no process has that pid it returns
\* NotFound; what is thrown is never what is returned.
PollValidatesPid ==
    [][/\ (PollCalled /\ InvalidPid(query'.pid))
          => /\ query'.status = "thrown"
             /\ query'.result = "InvalidInput"
             /\ ~query'.probed
       /\ (PollCalled
           /\ ~InvalidPid(query'.pid)
           /\ query'.intervalMs >= MinIntervalMs
           /\ query'.intervalMs <= MaxIntervalMs)
          => query'.status = "probing"
       /\ (query.status = "probing" /\ query'.status # "probing"
           /\ query.pidNum \notin procs)
          => (query'.status = "returned" /\ query'.result = "NotFound")
       /\ query'.status = "thrown" => query'.result = "InvalidInput"
       /\ query'.status = "returned"
          => query'.result \in {"Alive", "NotFound"}]_vars

\* pipeWithTimeout call p has delivered its outcome
SettledCall(p) == calls[p].outcome.kind \notin {"Idle", "Pending"}

\* C21: a pipeWithTimeout call delivers exactly one outcome, whatever the
\* order of the exit of its child, of an error of the child and of its
\* timer; the timer is armed at the start for start + timeoutMs and is not
\* moved, time does not pass it while the call waits, and no outcome is
\* delivered after it; a call that times out does so at its deadline with
\* SIGTERM sent to its child; and when the outcome is delivered the
\* processes registry has no entry of the call.
PipeCompletesInTime ==
    [][\A p \in Pipes :
          /\ calls'[p].delivered <= 1
          /\ (calls'[p].delivered = 1) <=> SettledCall(p)'
          /\ (calls[p].outcome = Idle /\ calls'[p].outcome = Pending)
             => calls'[p].timer = now + calls'[p].timeoutMs
          /\ (calls[p].outcome = Pending /\ calls'[p].outcome = Pending)
             => (calls'[p].timer = calls[p].timer /\ now' <= calls[p].timer)
          /\ (calls[p].outcome = Pending /\ calls'[p].outcome # Pending)
             => now <= calls[p].timer
          /\ (calls[p].outcome = Pending /\ calls'[p].outcome = TimedOut)
             => (now = calls[p].timer /\ calls'[p].child = "signalled")
          /\ SettledCall(p) => calls'[p].outcome = calls[p].outcome
          /\ SettledCall(p)' => p \notin processes']_vars

\* one call has timed out at its deadline, with its child signalled and its
\* entry removed, and another has reported the exit of its child
PipeCompletesInTimeWitness ==
    \E p, q \in Pipes :
        /\ calls[p].outcome = TimedOut
        /\ now = calls[p].timeoutMs
        /\ calls[p].child = "signalled"
        /\ calls[q].outcome.kind = "Exited"
        /\ processes = {}

\* C22: a sweep returns one for each watch that waits with an entry in the
\* watchers registry plus one for each child process in the processes
\* registry, each of which it signals, and leaves both registries empty;
\* when no watch waits and no child is tracked it returns zero, changes
\* neither registry, and still runs its find command.
SweepCountsResources ==
    [][Sweep
       => /\ cleaned(Cur)
                = Cardinality(InFlight(Cur)) + Cardinality(processes)
          /\ \A p \in processes : calls'[p].child = "signalled"
          /\ watchers' = {}
          /\ processes' = {}
          /\ tmp' = cleanTmp(Cur).tmp
          /\ ( /\ \A w \in Watches : outcome[w] # Pending
               /\ processes = {} )
             => /\ cleaned(Cur) = 0
                /\ watchers' = watchers
                /\ processes' = processes]_vars

\* C23: a sweep deletes from /tmp exactly the artifacts whose name follows
\* one of the four conventions and that are older than one day.
SweepDeletesAged ==
    [][Sweep
       => tmp' = { a \in tmp :
                     ~( /\ a.conv \in NameConventions
                        /\ a.ageHours > RetentionDays * HoursPerDay ) }]_vars

\* a request for tool `name` is answered with an error and the tool is not
\* run, or the tool is run, and the counters of the other tools are as
\* they were
AnsweredAlone(name) ==
    /\ response'.tool = name
    /\ response'.kind \in {"ran", "SecurityError"}
    /\ response'.kind = "SecurityError" => commandCounts' = commandCounts
    /\ \A other \in ToolNames \ {name} :
          commandCounts'[other] = commandCounts[other]

\* C24 as stated: of the requests for a tool that arrive within any span
\* of 60 seconds no more than 50 are accepted; a request beyond the limit
\* is answered with a SecurityError and the tool is not run; a request for
\* one tool leaves the allowance of every other tool as it was.
RateLimitPerSpan ==
    [][\A name \in ToolNames :
          CallTool(name)
          => /\ AnsweredAlone(name)
             /\ span'.accepted <= ToolMaxRequests]_vars

\* C24 amended: the limit is counted in windows that do not slide. A
\* request for a tool that finds no window of the tool, or one that ended
\* more than 0 ms ago, opens a window of 60 seconds and is accepted; until
\* the window ends, no more than 50 requests for the tool are accepted
\* and every further one is answered with a SecurityError, the tool not
\* being run; so within a span of 60 seconds, which may lie across two
\* windows, up to 100 requests but no more are accepted. A request for one
\* tool leaves the allowance of every other tool as it was.
RateLimitPerWindow ==
    [][\A name \in ToolNames :
          CallTool(name)
          => LET e == commandCounts[name]
                 fresh == e = NoEntry \/ now > e.resetTime
             IN  /\ AnsweredAlone(name)
                 /\ fresh
                    => /\ response'.kind = "ran"
                       /\ commandCounts'[name]
                             = [count |-> 1,
                                resetTime |-> now + ToolWindowMs]
                 /\ ~fresh
                    => /\ response'.kind = "ran"
                          <=> e.count < ToolMaxRequests
                       /\ commandCounts'[name].resetTime = e.resetTime
                 /\ commandCounts'[name].count <= ToolMaxRequests
                 /\ span'.accepted <= 2 * ToolMaxRequests]_vars

\* more than 50 requests for a tool were accepted within a span of 60
\* seconds, the next one was refused, and requests for the other tool
\* were accepted meanwhile
RateLimitPerWindowWitness ==
    /\ span.tool = BusyTool
    /\ span.accepted > ToolMaxRequests
    /\ now < span.start + ToolWindowMs
    /\ response = [tool |-> BusyTool, kind |-> "SecurityError"]
    /\ commandCounts[BusyTool].count = ToolMaxRequests
    /\ commandCounts[QuietTool].count > 0

\* C25: the buffer of a pipe watch is bounded by a maximum of the program,
\* with patterns or without: however much the writers send (in the model,
\* up to MaxBufferLen characters for a watch), the buffer stops growing
\* before it holds all of it.
PipeBufferBounded ==
    \A w \in Watches : Len(buffer[w]) < MaxBufferLen

\* watch w was asked for a pattern that content contains
HasPattern(w, content) ==
    \E i \in 1..Len(req[w].patterns) : Includes(content, req[w].patterns[i])

\* C26: a chunk read by a waiting pipe watch is added to the end of what
\* the watch has read, and the watch delivers Matched in that step exactly
\* when the whole of it contains a requested pattern, so that a pattern
\* that ends in the chunk and began in an earlier one is matched; a file
\* watch delivers Matched only on a pattern that the file contains as it
\* is read in that step, and at a reported change it delivers Matched
\* exactly when the content it reads contains a requested pattern,
\* whatever the file contained before.
ScansAccumulationOrCurrent ==
    [][\A w \in Watches :
          /\ ( /\ req[w].kind = "pipe"
               /\ outcome[w] = Pending
               /\ buffer'[w] # buffer[w] )
             => /\ \E chunk \in ChunkChoices :
                      buffer'[w] = buffer[w] \o chunk
                /\ outcome'[w].kind = "Matched"
                      <=> HasPattern(w, buffer'[w])
          /\ (req'[w].kind = "file" /\ DeliversMatch(w))
             => Includes(files[req'[w].path].content, outcome'[w].pattern)
          /\ ( /\ req[w].kind = "file"
               /\ outcome[w] = Pending
               /\ Subscribed(w)
               /\ files[req[w].path].state = "ok"
               /\ mtime[req[w].path] > prevMtime[req[w].path]
               /\ Poll(req[w].path) )
             => (outcome'[w].kind = "Matched"
                    <=> HasPattern(w, files[req[w].path].content))]_vars

\* the pipe watch has matched a pattern of two characters that came in two
\* chunks, and the file watch, asked for a pattern whose beginning ended
\* the first version of its file and whose end begins the second, has seen
\* the change reported and has not matched
ScansAccumulationOrCurrentWitness ==
    \E v, w \in Watches :
        /\ req[v].kind = "pipe"
        /\ outcome[v] = Matched(<<"a", "b">>)
        /\ buffer[v] = <<"a", "b">>
        /\ req[w].kind = "file"
        /\ req[w].patterns = << <<"c", "a">> >>
        /\ files[req[w].path] = Content(<<"a", "b">>)
        /\ prevMtime[req[w].path] = mtime[req[w].path]
        /\ mtime[req[w].path] > 0
        /\ outcome[w] = Pending

\* C27: a file watch that waits, registered and subscribed, keeps its
\* registry entry and its change subscription through every step of
\* another watch on the same path (its start, its resolution, a late
\* callback of it, also of a watch that was swept earlier), so that a
\* change of its file is still reported to it and it can still deliver
\* Matched.
EntriesBelongToWatches ==
    [][\A w \in Watches :
          ( /\ req[w].kind = "file"
            /\ outcome[w] = Pending
            /\ outcome'[w] = Pending
            /\ \E v \in Watches \ {w} : Acts(v) )
          => /\ req[w].path \in watchers => req[w].path \in watchers'
             /\ Subscribed(w) => Subscribed(w)']_vars

\* C28: a child of a pipeWithTimeout call that has not exited, whether it
\* was sent a signal or not, has its entry in the processes registry, so
\* that a later sweep can still terminate it.
LiveChildrenTracked ==
    \A p \in Pipes :
        calls[p].child \in {"running", "signalled"} => p \in processes

\* C29: the answer of a listing is never older than the last change that
\* had returned when the listing was called, whether the answer is read
\* from the cache or from zellij, and whatever listing was in progress
\* while the change was made.
CacheNeverStale ==
    \A kind \in Kinds :
        listed[kind] # NoListing => listed[kind].value >= listed[kind].floor

\* C30: every wrapper script that createLLMWrapper writes runs its command
\* under a positive time limit, timeout_ms / 1000 seconds, so that a
\* command that never exits can be timed out by the script.
WrapperTimeoutPositive ==
    run.pc # "none" =>
        /\ TimeoutSeconds(run) = run.timeoutMs \div 1000
        /\ TimeoutSeconds(run) > 0

====
